---- MODULE Spec2Model ----
(***************************************************************************)
(* Model of bot.py: one pass of the Kickbase auto-bidder (run_bot_once),   *)
(* its bid rule (decide_bid_smart), the expiry helpers and the v4 wrapper  *)
(* calls (login, league_me, market, make_offer_v4).                        *)
(*                                                                         *)
(* Numbers.  Python integers are unbounded; the expiry threshold 10**12    *)
(* does not fit a 32-bit model integer.  A raw expiry n is therefore kept  *)
(* as the pair [k, r] with n = k * 1000 + r and 0 <= r < 1000, and a point *)
(* in time as [s, ms] (whole seconds since the epoch, milliseconds).       *)
(* None is the empty tuple <<>>, a present value v is <<v>>.               *)
(***************************************************************************)
EXTENDS Integers, Sequences, FiniteSets, TLC

VARIABLES pc, DRY_RUN, now, budget_raw, budget, players, players_sorted, idx,
          bid, calls, outcome, answers

vars == <<pc, DRY_RUN, now, budget_raw, budget, players, players_sorted, idx,
          bid, calls, outcome, answers>>

(***************************************************************************)
(* Configuration (KONFIG)                                                  *)
(***************************************************************************)
MAX_EXPIRY_WINDOW_SECONDS == 7200

MIN_CASH_BUFFER == 500000

\* MAX_OVERPAY_PCT = 0.10, kept as the percentage 10
MAX_OVERPAY_PCT == 10

(***************************************************************************)
(* Bounds of the model                                                     *)
(***************************************************************************)
\* the wall clock when the run starts (seconds since the epoch)
StartEpoch == 1800000000

\* most listings in one market snapshot
MaxPlayers == 2

\* most seconds that pass between two readings of the clock
MaxTick == 1

\* most seconds the clock advances during one run
MaxClock == 2

None == <<>>

Some(v) == <<v>>

\* Python's `x or 0` for x that is None or an integer
OrZero(x) == IF x = None THEN 0 ELSE x[1]

Max2(a, b) == IF a >= b THEN a ELSE b

Min2(a, b) == IF a <= b THEN a ELSE b

\* the raw expiry n as the pair [k, r], n = k * 1000 + r
Raw(n) == [k |-> n \div 1000, r |-> n % 1000]

\* the raw expiry of the point in time s seconds + m milliseconds, sent as
\* a millisecond timestamp
RawMs(s, m) == [k |-> s, r |-> m]

(***************************************************************************)
(* expiry_to_datetime: a raw value above 10**12 is a millisecond           *)
(* timestamp (raw / 1000 seconds), anything else a timestamp in seconds.   *)
(***************************************************************************)
IsMilliseconds(expiry_raw) ==
    \/ expiry_raw.k > 1000000000
    \/ expiry_raw.k = 1000000000 /\ expiry_raw.r > 0

expiry_to_datetime(expiry_raw) ==
    IF IsMilliseconds(expiry_raw)
    THEN [s |-> expiry_raw.k, ms |-> expiry_raw.r]
    ELSE [s |-> expiry_raw.k * 1000 + expiry_raw.r, ms |-> 0]

\* datetime order
Before(a, b) == a.s < b.s \/ (a.s = b.s /\ a.ms < b.ms)

(***************************************************************************)
(* seconds_until_expiry: (exp - t).total_seconds(), as whole seconds s and *)
(* milliseconds ms with 0 <= ms < 1000; the value is s + ms / 1000.        *)
(***************************************************************************)
seconds_until_expiry(expiry_raw, t) ==
    LET exp == expiry_to_datetime(expiry_raw)
        d   == exp.ms - t.ms
    IN  IF d >= 0 THEN [s |-> exp.s - t.s, ms |-> d]
                  ELSE [s |-> exp.s - t.s - 1, ms |-> d + 1000]

\* secs_left < 0
Negative(secs_left) == secs_left.s < 0

\* secs_left > limit, limit a whole number of seconds
Above(secs_left, limit) ==
    secs_left.s > limit \/ (secs_left.s = limit /\ secs_left.ms > 0)

(***************************************************************************)
(* decide_bid_smart(player, me_budget); t is the clock reading taken by    *)
(* seconds_until_expiry inside it.  None means "no bid".                   *)
(***************************************************************************)
TrendFlag(player) ==
    IF player.market_value_trend # None
    THEN player.market_value_trend[1]
    ELSE OrZero(player.mvt)

\* int(mv * (1 + MAX_OVERPAY_PCT)); the float product truncates to the same
\* integer as mv * 110 \div 100 for every market value the model uses
MaxAllowed(mv) == (mv * (100 + MAX_OVERPAY_PCT)) \div 100

\* CappedBid without the overpay cap of lines 332-333
CappedBid_NoCap(mv, trend_flag) ==
    LET increment == Max2(1, trend_flag)
        raw_bid   == mv + increment
    IN  Max2(raw_bid, mv)

\* lines 327-336: increment, cap, floor
CappedBid(mv, trend_flag) ==
    LET increment == Max2(1, trend_flag)
        raw_bid   == mv + increment
        capped    == Min2(raw_bid, MaxAllowed(mv))
    IN  Max2(capped, mv)

\* decide_bid_smart without the budget check of lines 339-340
decide_bid_smart_NoBufferCheck(player, me_budget, t) ==
    LET mv         == OrZero(player.market_value)
        trend_flag == TrendFlag(player)
        secs_left  == seconds_until_expiry(player.expiry, t)
        b          == CappedBid(mv, trend_flag)
    IN  IF mv <= 0 THEN None
        ELSE IF me_budget <= MIN_CASH_BUFFER THEN None
        ELSE IF Negative(secs_left) THEN None
        ELSE IF Above(secs_left, MAX_EXPIRY_WINDOW_SECONDS) THEN None
        ELSE IF trend_flag <= 0 THEN None
        ELSE Some(b)

\* decide_bid_smart without the riser check of lines 324-325
decide_bid_smart_NoTrendCheck(player, me_budget, t) ==
    LET mv         == OrZero(player.market_value)
        trend_flag == TrendFlag(player)
        secs_left  == seconds_until_expiry(player.expiry, t)
        b          == CappedBid(mv, trend_flag)
    IN  IF mv <= 0 THEN None
        ELSE IF me_budget <= MIN_CASH_BUFFER THEN None
        ELSE IF Negative(secs_left) THEN None
        ELSE IF Above(secs_left, MAX_EXPIRY_WINDOW_SECONDS) THEN None
        ELSE IF me_budget - b < MIN_CASH_BUFFER THEN None
        ELSE Some(b)

decide_bid_smart(player, me_budget, t) ==
    LET mv         == OrZero(player.market_value)
        trend_flag == TrendFlag(player)
        secs_left  == seconds_until_expiry(player.expiry, t)
        b          == CappedBid(mv, trend_flag)
    IN  IF mv <= 0 THEN None
        ELSE IF me_budget <= MIN_CASH_BUFFER THEN None
        ELSE IF Negative(secs_left) THEN None
        ELSE IF Above(secs_left, MAX_EXPIRY_WINDOW_SECONDS) THEN None
        ELSE IF trend_flag <= 0 THEN None
        ELSE IF me_budget - b < MIN_CASH_BUFFER THEN None
        ELSE Some(b)

(***************************************************************************)
(* Kickbase wrapper.  A response of the transport (_do_post / _do_get) is  *)
(* a record; status TransportError stands for the transport raising        *)
(* (timeout, connection failure), which is not a KickbaseException.        *)
(***************************************************************************)
TransportError == 0

SuccessStatus == {200, 201}

\* login: "ok", or the exception that leaves it
login(resp) ==
    IF resp.status = TransportError THEN "raised"
    ELSE IF ~resp.json_ok THEN "KickbaseException"
    ELSE IF resp.status = 200
         THEN IF resp.keys_ok THEN "ok" ELSE "KickbaseException"
    ELSE IF resp.status = 401 THEN "KickbaseLoginException"
    ELSE "KickbaseException"

\* league_me and market share one shape: JSON body and status 200, or raise
league_me(resp) ==
    IF resp.status = TransportError THEN "raised"
    ELSE IF ~resp.json_ok THEN "KickbaseException"
    ELSE IF resp.status = 200 THEN "ok"
    ELSE "KickbaseException"

market(resp) ==
    IF resp.status = TransportError THEN "raised"
    ELSE IF ~resp.json_ok THEN "KickbaseException"
    ELSE IF resp.status = 200 THEN "ok"
    ELSE "KickbaseException"

\* make_offer_v4 as an ordered fallback over three endpoint shapes: go on to
\* the next shape on 404 / 405, stop on success or on any other status
RECURSIVE TryTemplates(_, _)
TryTemplates(upstream, j) ==
    LET status == upstream[j]
    IN  IF status = 0
        THEN [result |-> "raised", sent |-> SubSeq(upstream, 1, j)]
        ELSE IF status \in {200, 201}
        THEN [result |-> "ok", sent |-> SubSeq(upstream, 1, j)]
        ELSE IF status \in {404, 405} /\ j < Len(upstream)
        THEN TryTemplates(upstream, j + 1)
        ELSE [result |-> "KickbaseException", sent |-> SubSeq(upstream, 1, j)]

make_offer_v4_Fallback(upstream) == TryTemplates(upstream, 1)

\* make_offer_v4 that sends the request a second time after a failure status
make_offer_v4_Retry(upstream) ==
    IF upstream[1] = 0
    THEN [result |-> "raised", sent |-> <<upstream[1]>>]
    ELSE IF upstream[1] \in {200, 201}
    THEN [result |-> "ok", sent |-> <<upstream[1]>>]
    ELSE IF upstream[2] \in {200, 201}
    THEN [result |-> "ok", sent |-> <<upstream[1], upstream[2]>>]
    ELSE [result |-> "KickbaseException", sent |-> <<upstream[1], upstream[2]>>]

\* make_offer_v4: one POST to the one v4 offer endpoint.  upstream is what
\* the server would answer to successive offer requests for this listing;
\* the method reads the first answer only.  sent lists the statuses of the
\* requests it issued.
make_offer_v4(upstream) ==
    LET status == upstream[1]
    IN  IF status = TransportError
        THEN [result |-> "raised", sent |-> <<status>>]
        ELSE IF status \in SuccessStatus
        THEN [result |-> "ok", sent |-> <<status>>]
        ELSE [result |-> "KickbaseException", sent |-> <<status>>]

(***************************************************************************)
(* run_bot_once, lines 424-425: sorted(players, key=expiry_to_datetime).   *)
(* The result is the list of positions in players, soonest expiry first;   *)
(* sorted() is stable.                                                     *)
(***************************************************************************)
RECURSIVE InsertSorted(_, _, _)
InsertSorted(ps, sorted, n) ==
    IF sorted = <<>> THEN <<n>>
    ELSE LET last == sorted[Len(sorted)]
         IN  IF Before(expiry_to_datetime(ps[n].expiry),
                       expiry_to_datetime(ps[last].expiry))
             THEN Append(InsertSorted(ps, SubSeq(sorted, 1, Len(sorted) - 1), n),
                         last)
             ELSE Append(sorted, n)

RECURSIVE SortPrefix(_, _)
SortPrefix(ps, n) ==
    IF n = 0 THEN <<>> ELSE InsertSorted(ps, SortPrefix(ps, n - 1), n)

\* the loop run over players as fetched, without sorting
SortByExpiry_Unsorted(ps) == [n \in 1..Len(ps) |-> n]

SortByExpiry(ps) == SortPrefix(ps, Len(ps))

\* line 455: getattr(p, "id", None) or getattr(p, "i", None); 0 is "missing"
PlayerId(p) == IF p.id # 0 THEN p.id ELSE p.i

\* lines 404-408: int(me_json.get("b", 0)), 0 when it does not convert
BudgetOf(b) == IF b = None THEN 0 ELSE b[1]

\* LoopBody with `budget -= bid` ahead of the try block
LoopBody_ChargeOnFailure(p, me_budget, dry, t1, t2, upstream) ==
    LET secs_left == seconds_until_expiry(p.expiry, t1)
        b         == decide_bid_smart(p, me_budget, t2)
        offer     == make_offer_v4(upstream)
        skip(t, c) == [outcome |-> "skipped", bid |-> c, sent |-> <<>>,
                       budget |-> me_budget, clock |-> t]
    IN  IF Negative(secs_left) \/ Above(secs_left, MAX_EXPIRY_WINDOW_SECONDS)
        THEN skip(t1, None)
        ELSE IF b = None THEN skip(t2, None)
        ELSE IF PlayerId(p) = 0 THEN skip(t2, b)
        ELSE IF dry
        THEN [outcome |-> "dry_run", bid |-> b, sent |-> <<>>,
              budget |-> me_budget, clock |-> t2]
        ELSE IF offer.result = "ok"
        THEN [outcome |-> "accepted", bid |-> b, sent |-> offer.sent,
              budget |-> me_budget - b[1], clock |-> t2]
        ELSE IF offer.result = "KickbaseException"
        THEN [outcome |-> "failed", bid |-> b, sent |-> offer.sent,
              budget |-> me_budget - b[1], clock |-> t2]
        ELSE [outcome |-> "raised", bid |-> b, sent |-> offer.sent,
              budget |-> me_budget, clock |-> t2]

\* LoopBody that never takes the DRY_RUN branch of line 460
LoopBody_IgnoreDryRun(p, me_budget, dry, t1, t2, upstream) ==
    LET secs_left == seconds_until_expiry(p.expiry, t1)
        b         == decide_bid_smart(p, me_budget, t2)
        offer     == make_offer_v4(upstream)
        skip(t, c) == [outcome |-> "skipped", bid |-> c, sent |-> <<>>,
                       budget |-> me_budget, clock |-> t]
    IN  IF Negative(secs_left) \/ Above(secs_left, MAX_EXPIRY_WINDOW_SECONDS)
        THEN skip(t1, None)
        ELSE IF b = None THEN skip(t2, None)
        ELSE IF PlayerId(p) = 0 THEN skip(t2, b)
        ELSE IF FALSE
        THEN [outcome |-> "dry_run", bid |-> b, sent |-> <<>>,
              budget |-> me_budget, clock |-> t2]
        ELSE IF offer.result = "ok"
        THEN [outcome |-> "accepted", bid |-> b, sent |-> offer.sent,
              budget |-> me_budget - b[1], clock |-> t2]
        ELSE IF offer.result = "KickbaseException"
        THEN [outcome |-> "failed", bid |-> b, sent |-> offer.sent,
              budget |-> me_budget, clock |-> t2]
        ELSE [outcome |-> "raised", bid |-> b, sent |-> offer.sent,
              budget |-> me_budget, clock |-> t2]

(***************************************************************************)
(* The body of the loop (lines 428-481) for listing p: t1 and t2 are the   *)
(* two clock readings, upstream the server's answers to offer requests.    *)
(***************************************************************************)
LoopBody(p, me_budget, dry, t1, t2, upstream) ==
    LET secs_left == seconds_until_expiry(p.expiry, t1)
        b         == decide_bid_smart(p, me_budget, t2)
        offer     == make_offer_v4(upstream)
        skip(t, c) == [outcome |-> "skipped", bid |-> c, sent |-> <<>>,
                       budget |-> me_budget, clock |-> t]
    IN  IF Negative(secs_left) \/ Above(secs_left, MAX_EXPIRY_WINDOW_SECONDS)
        THEN skip(t1, None)
        ELSE IF b = None THEN skip(t2, None)
        ELSE IF PlayerId(p) = 0 THEN skip(t2, b)
        ELSE IF dry
        THEN [outcome |-> "dry_run", bid |-> b, sent |-> <<>>,
              budget |-> me_budget, clock |-> t2]
        ELSE IF offer.result = "ok"
        THEN [outcome |-> "accepted", bid |-> b, sent |-> offer.sent,
              budget |-> me_budget - b[1], clock |-> t2]
        ELSE IF offer.result = "KickbaseException"
        THEN [outcome |-> "failed", bid |-> b, sent |-> offer.sent,
              budget |-> me_budget, clock |-> t2]
        ELSE [outcome |-> "raised", bid |-> b, sent |-> offer.sent,
              budget |-> me_budget, clock |-> t2]

(***************************************************************************)
(* Inputs: what the upstream can answer.                                   *)
(***************************************************************************)
\* a listing expiring off seconds (+ m milliseconds) after StartEpoch, with
\* the raw value sent either as a seconds or as a millisecond timestamp
ExpirySec(off) ==
    [raw |-> Raw(StartEpoch + off), at |-> [s |-> StartEpoch + off, ms |-> 0]]

ExpiryMs(off, m) ==
    [raw |-> RawMs(StartEpoch + off, m), at |-> [s |-> StartEpoch + off, ms |-> m]]

ExpiryCases ==
    { ExpirySec(1800), ExpiryMs(600, 250), ExpiryMs(1800, 0), ExpirySec(0 - 5),
      ExpirySec(1), ExpirySec(7200), ExpiryMs(7200, 1), ExpirySec(9000),
      ExpiryMs(0 - 1, 999) }

\* the point in time a raw expiry of ExpiryCases stands for
ExpiresAt(raw) == (CHOOSE c \in ExpiryCases : c.raw = raw).at

\* the player object the Market model builds for the n-th listing; idform
\* says which attribute carries the id
MakePlayer(mv, trend, mvt, exp, idform, n) ==
    [market_value |-> mv, market_value_trend |-> trend, mvt |-> mvt,
     expiry |-> exp.raw,
     id |-> IF idform = "id" THEN n ELSE 0,
     i  |-> IF idform = "i" THEN n ELSE 0]

\* listings of a market snapshot, by kind
Listing(kind, n) ==
    CASE kind = "riser"   -> MakePlayer(Some(1000000), Some(2), None, ExpirySec(1800), "id", n)
      [] kind = "soon_ms" -> MakePlayer(Some(1000000), None, Some(1), ExpiryMs(600, 250), "i", n)
      [] kind = "cheap"   -> MakePlayer(Some(5), Some(1), None, ExpiryMs(1800, 0), "id", n)
      [] kind = "faller"  -> MakePlayer(Some(1000000), Some(0), Some(2), ExpiryMs(600, 250), "id", n)
      [] kind = "closing" -> MakePlayer(Some(1000000), Some(2), None, ExpirySec(1), "id", n)
      [] kind = "no_id"   -> MakePlayer(Some(1000000), Some(2), None, ExpirySec(1800), "none", n)
      [] kind = "late"    -> MakePlayer(Some(1000000), Some(2), None, ExpirySec(9000), "id", n)

ListingKinds == {"riser", "soon_ms", "cheap", "faller", "closing", "no_id", "late"}

Snapshots ==
    UNION { [1..n -> ListingKinds] : n \in 0..MaxPlayers }

\* the field "b" of league_me: missing or not a number (None), or a number
BudgetField == {None, Some(500005), Some(2000000), Some(3000010)}

LoginResponses ==
    { [status |-> TransportError, json_ok |-> FALSE, keys_ok |-> FALSE, leagues |-> 0],
      [status |-> 200, json_ok |-> FALSE, keys_ok |-> FALSE, leagues |-> 0],
      [status |-> 200, json_ok |-> TRUE,  keys_ok |-> FALSE, leagues |-> 0],
      [status |-> 200, json_ok |-> TRUE,  keys_ok |-> TRUE,  leagues |-> 0],
      [status |-> 200, json_ok |-> TRUE,  keys_ok |-> TRUE,  leagues |-> 1],
      [status |-> 401, json_ok |-> TRUE,  keys_ok |-> FALSE, leagues |-> 0],
      [status |-> 500, json_ok |-> TRUE,  keys_ok |-> FALSE, leagues |-> 0] }

GetResponses ==
    { [status |-> TransportError, json_ok |-> FALSE],
      [status |-> 200, json_ok |-> FALSE],
      [status |-> 200, json_ok |-> TRUE],
      [status |-> 403, json_ok |-> TRUE],
      [status |-> 500, json_ok |-> TRUE] }

\* statuses that say "this endpoint does not apply"
MismatchStatus == {404, 405}

\* definitive rejections: validation, authorization, server error
RejectionStatus == {400, 401, 500}

\* what the upstream answers to the 1st, 2nd, 3rd offer request for one listing
OfferAnswers ==
    { <<200, 200, 200>>, <<201, 404, 404>>, <<404, 405, 200>>, <<405, 404, 201>>,
      <<404, 404, 404>>, <<500, 200, 200>>, <<401, 200, 200>>, <<400, 404, 200>>,
      <<TransportError, 200, 200>> }

Tick(t, d) == [s |-> t.s + d, ms |-> t.ms]

(***************************************************************************)
(* run_bot_once                                                            *)
(***************************************************************************)
Call(op, n, prc, tpl, ok) ==
    [op |-> op, player |-> n, prc |-> prc, tpl |-> tpl, ok |-> ok]

Init ==
    /\ pc = "env"
    /\ DRY_RUN \in BOOLEAN
    /\ now = [s |-> StartEpoch, ms |-> 0]
    /\ budget_raw = None
    /\ budget = 0
    /\ players = <<>>
    /\ players_sorted = <<>>
    /\ idx = 1
    /\ bid = None
    /\ calls = <<>>
    /\ outcome = <<>>
    /\ answers = <<>>

\* lines 356-357: get_env raises RuntimeError when a credential is not set
GetEnv ==
    /\ pc = "env"
    /\ \E is_set \in BOOLEAN : pc' = IF is_set THEN "login" ELSE "raised"
    /\ UNCHANGED <<DRY_RUN, now, budget_raw, budget, players, players_sorted, idx, bid,
                   calls, outcome, answers>>

\* lines 364-380
Login ==
    /\ pc = "login"
    /\ \E resp \in LoginResponses :
         LET r == login(resp)
         IN  /\ calls' = Append(calls, Call("login", 0, 0, 1, r = "ok"))
             /\ pc' = IF r = "raised" THEN "raised"
                      ELSE IF r # "ok" THEN "done"
                      ELSE IF resp.leagues = 0 THEN "done"
                      ELSE "league_me"
    /\ UNCHANGED <<DRY_RUN, now, budget_raw, budget, players, players_sorted, idx, bid,
                   outcome, answers>>

\* LeagueMe that logs the failure of league_me and goes on to the market
LeagueMe_ContinueOnFailure ==
    /\ pc = "league_me"
    /\ \E resp \in GetResponses, b \in BudgetField :
         LET r == league_me(resp)
         IN  /\ calls' = Append(calls, Call("league_me", 0, 0, 1, r = "ok"))
             /\ pc' = IF r = "raised" THEN "raised" ELSE "market"
             /\ budget_raw' = b
             /\ budget' = BudgetOf(b)
    /\ UNCHANGED <<DRY_RUN, now, players, players_sorted, idx, bid,
                   outcome, answers>>

\* lines 397-410
LeagueMe ==
    /\ pc = "league_me"
    /\ \E resp \in GetResponses, b \in BudgetField :
         LET r == league_me(resp)
         IN  /\ calls' = Append(calls, Call("league_me", 0, 0, 1, r = "ok"))
             /\ pc' = IF r = "raised" THEN "raised"
                      ELSE IF r # "ok" THEN "done"
                      ELSE "market"
             /\ budget_raw' = IF r = "ok" THEN b ELSE budget_raw
             /\ budget' = IF r = "ok" THEN BudgetOf(b) ELSE budget
    /\ UNCHANGED <<DRY_RUN, now, players, players_sorted, idx, bid,
                   outcome, answers>>

\* lines 412-425: fetch the market, stop when it is empty, sort by expiry
FetchMarket ==
    /\ pc = "market"
    /\ \E resp \in GetResponses, snap \in Snapshots :
         LET r  == market(resp)
             ps == [n \in 1..Len(snap) |-> Listing(snap[n], n)]
         IN  /\ calls' = Append(calls, Call("market", 0, 0, 1, r = "ok"))
             /\ pc' = IF r = "raised" THEN "raised"
                      ELSE IF r # "ok" THEN "done"
                      ELSE IF ps = <<>> THEN "done"
                      ELSE "loop"
             /\ players' = IF r = "ok" THEN ps ELSE players
             /\ players_sorted' = IF r = "ok" THEN SortByExpiry(ps)
                                  ELSE players_sorted
    /\ UNCHANGED <<DRY_RUN, now, budget_raw, budget, idx, bid, outcome, answers>>

\* the requests one pass of the loop body issued, as entries of the log
OfferCalls(n, res) ==
    [j \in 1..Len(res.sent) |->
        Call("offer", n, res.bid[1], j, res.sent[j] \in SuccessStatus)]

\* lines 427-481: one pass of the loop
Iterate ==
    /\ pc = "loop"
    /\ idx <= Len(players_sorted)
    /\ \E d1 \in 0..MaxTick, d2 \in 0..MaxTick, upstream \in OfferAnswers :
         LET n   == players_sorted[idx]
             t1  == Tick(now, d1)
             t2  == Tick(t1, d2)
             res == LoopBody(players[n], budget, DRY_RUN, t1, t2, upstream)
         IN  /\ t2.s <= StartEpoch + MaxClock
             /\ now' = res.clock
             /\ bid' = res.bid
             /\ budget' = res.budget
             /\ outcome' = Append(outcome, res.outcome)
             /\ calls' = calls \o OfferCalls(n, res)
             /\ answers' = IF res.sent = <<>> THEN <<>> ELSE upstream
             /\ pc' = IF res.outcome = "raised" THEN "raised" ELSE "loop"
    /\ idx' = idx + 1
    /\ UNCHANGED <<DRY_RUN, budget_raw, players, players_sorted>>

\* line 483
Finish ==
    /\ pc = "loop"
    /\ idx > Len(players_sorted)
    /\ pc' = "done"
    /\ UNCHANGED <<DRY_RUN, now, budget_raw, budget, players, players_sorted, idx, bid,
                   calls, outcome, answers>>

Next == GetEnv \/ Login \/ LeagueMe \/ FetchMarket \/ Iterate \/ Finish

Spec == Init /\ [][Next]_vars

(***************************************************************************)
(* decide_bid_smart on its own: one call on a listing, a budget and a      *)
(* clock reading drawn from the sets below.                                *)
(***************************************************************************)
BidMarketValues == {None, Some(0 - 1), Some(0), Some(1), Some(5), Some(10), Some(1000000)}

BidTrends == {None, Some(0 - 1), Some(0), Some(1), Some(2), Some(4)}

BidMvt == {None, Some(0), Some(3)}

BidBudgets == {0, 500000, 500001, 500005, 1400000, 1500002, 2000000, 3000000}

InitBid ==
    /\ pc = "bid_call"
    /\ DRY_RUN = FALSE
    /\ \E d \in 0..MaxTick : now = [s |-> StartEpoch + d, ms |-> 0]
    /\ budget_raw = None
    /\ budget \in BidBudgets
    /\ \E mv \in BidMarketValues, trend \in BidTrends, mvt \in BidMvt,
          exp \in ExpiryCases :
         players = <<MakePlayer(mv, trend, mvt, exp, "id", 1)>>
    /\ players_sorted = <<1>>
    /\ idx = 1
    /\ bid = None
    /\ calls = <<>>
    /\ outcome = <<>>
    /\ answers = <<>>

\* line 434: bid = decide_bid_smart(p, budget)
BidCall ==
    /\ pc = "bid_call"
    /\ bid' = decide_bid_smart(players[1], budget, now)
    /\ pc' = "bid_ret"
    /\ UNCHANGED <<DRY_RUN, now, budget_raw, budget, players, players_sorted,
                   idx, calls, outcome, answers>>

NextBid == BidCall

SpecBid == InitBid /\ [][NextBid]_vars

(***************************************************************************)
(* Properties                                                              *)
(***************************************************************************)
Last(seq) == seq[Len(seq)]

\* positions of the offer requests in the log
Offers == {c \in DOMAIN calls : calls[c].op = "offer"}

\* offer requests issued for the listing at position n of the snapshot
OffersFor(n) == {c \in Offers : calls[c].player = n}

\* the sum of the accepted bid amounts among the first m entries of the log
RECURSIVE AcceptedSum(_)
AcceptedSum(m) ==
    IF m = 0 THEN 0
    ELSE AcceptedSum(m - 1)
         + (IF calls[m].op = "offer" /\ calls[m].ok THEN calls[m].prc ELSE 0)

\* an offer was sent in the pass of the loop that has just ended
JustOffered == pc \in {"loop", "raised", "done"} /\ outcome # <<>> /\ answers # <<>>

\* the listing the last pass of the loop was about
LastPlayer == players_sorted[Len(outcome)]

\* C1: after each accepted offer the fetched budget minus the sum of all bid
\* amounts accepted so far is at least MIN_CASH_BUFFER.
C1_BudgetKeepsBuffer ==
    \A c \in Offers :
        calls[c].ok => BudgetOf(budget_raw) - AcceptedSum(c) >= MIN_CASH_BUFFER

\* two offers were accepted in one run
C1_Witness ==
    \E c \in Offers, d \in Offers : c < d /\ calls[c].ok /\ calls[d].ok

\* C2: a bid that decide_bid_smart returns lies between the market value and
\* floor(market value * 1.10), also when market value + increment is above
\* that cap.
C2_BidWithinCap ==
    (pc = "bid_ret" /\ bid # None) =>
        LET mv == players[1].market_value[1]
        IN  mv <= bid[1] /\ bid[1] <= (mv * 11) \div 10

\* a bid was returned for a market value so small that mv + increment is
\* above the cap
C2_Witness ==
    /\ pc = "bid_ret"
    /\ bid # None
    /\ players[1].market_value[1] + Max2(1, TrendFlag(players[1]))
         > (players[1].market_value[1] * 11) \div 10

C4_RejectionStopsAtOnce ==
    /\ (JustOffered /\ answers[1] \in RejectionStatus) =>
           /\ Last(outcome) = "failed"
           /\ Cardinality(OffersFor(LastPlayer)) = 1
    /\ \A c \in Offers, d \in Offers :
           (c < d /\ ~calls[c].ok) => calls[d].player # calls[c].player

\* a rejected offer, then an offer for another listing
C4_Witness ==
    /\ JustOffered
    /\ Len(outcome) = 2
    /\ outcome[1] = "failed"
    /\ Cardinality(Offers) = 2
    /\ answers[1] \in RejectionStatus
    /\ Last(outcome) = "failed"

\* C5: a pass of the loop lowers the budget by exactly the bid when the offer
\* is accepted, and leaves it as it was when the candidate is skipped, the
\* offer fails or the run is a dry run.
C5_BudgetFrame ==
    [][pc = "loop" =>
          IF Len(outcome') > Len(outcome) /\ Last(outcome') = "accepted"
          THEN /\ budget' = budget - bid'[1]
               /\ Last(calls').ok /\ Last(calls').prc = bid'[1]
          ELSE budget' = budget]_vars

\* a failed offer left the budget alone and the next offer was accepted
C5_Witness ==
    /\ Len(outcome) = 2
    /\ outcome[1] = "failed"
    /\ outcome[2] = "accepted"
    /\ budget = BudgetOf(budget_raw) - bid[1]

\* C6 as stated: an offer that fails, by a rejection status or because the
\* request itself fails, does not abort the run: the run ends normally and
\* with every listing evaluated.
C6_OfferFailureIsolated ==
    (pc \in {"done", "raised"} /\ \E c \in Offers : ~calls[c].ok) =>
        /\ pc = "done"
        /\ Len(outcome) = Len(players_sorted)

\* C7: with DRY_RUN set no offer request is issued.
C7_DryRunSendsNothing == DRY_RUN => Offers = {}

\* a dry run decided to bid
C7_Witness ==
    /\ DRY_RUN
    /\ outcome # <<>>
    /\ Last(outcome) = "dry_run"
    /\ bid # None

\* a listing comes before another in the processing order: it expires
\* earlier, or at the same time and it is earlier in the snapshot
InOrder(m, n) ==
    LET a == ExpiresAt(players[m].expiry)
        b == ExpiresAt(players[n].expiry)
    IN  Before(a, b) \/ (a = b /\ m < n)

\* C8: listings are evaluated, and offers issued, soonest expiry first,
\* listings of equal expiry in snapshot order.
C8_SoonestFirst ==
    /\ \A a \in 1..Len(outcome), b \in 1..Len(outcome) :
           a < b => InOrder(players_sorted[a], players_sorted[b])
    /\ \A c \in Offers, d \in Offers :
           c < d => InOrder(calls[c].player, calls[d].player)

\* two offers were issued in the reverse of the snapshot order, the first
\* for a millisecond expiry and the second for a seconds expiry
C8_Witness ==
    \E c \in Offers, d \in Offers :
        /\ c < d
        /\ calls[c].player > calls[d].player
        /\ IsMilliseconds(players[calls[c].player].expiry)
        /\ ~IsMilliseconds(players[calls[d].player].expiry)

\* market value <= 0, trend flag <= 0, already expired, or expiring later
\* than the window, at clock reading t
Ineligible(p, t) ==
    LET at == ExpiresAt(p.expiry)
    IN  \/ OrZero(p.market_value) <= 0
        \/ TrendFlag(p) <= 0
        \/ Before(at, t)
        \/ Before([s |-> t.s + MAX_EXPIRY_WINDOW_SECONDS, ms |-> t.ms], at)

\* C9: decide_bid_smart returns no bid for an ineligible listing, whatever
\* its other fields and the budget.
C9_IneligibleGetsNoBid ==
    (pc = "bid_ret" /\ Ineligible(players[1], now)) => bid = None

\* no bid for a listing that only its trend flag makes ineligible
C9_Witness ==
    /\ pc = "bid_ret"
    /\ bid = None
    /\ TrendFlag(players[1]) <= 0
    /\ OrZero(players[1].market_value) = 5
    /\ budget = 3000000
    /\ ~Before(ExpiresAt(players[1].expiry), now)
    /\ ~Before([s |-> now.s + MAX_EXPIRY_WINDOW_SECONDS, ms |-> now.ms],
               ExpiresAt(players[1].expiry))

\* C10: a failed login, league_me or market is the last request of the run,
\* and an offer is issued only after login, league_me and market succeeded
\* in that order.
C10_FetchFailureAborts ==
    /\ \A c \in DOMAIN calls :
           (calls[c].op \in {"login", "league_me", "market"} /\ ~calls[c].ok)
           => (c = Len(calls) /\ pc \in {"done", "raised"})
    /\ Offers # {} =>
           /\ Len(calls) > 3
           /\ calls[1].op = "login" /\ calls[1].ok
           /\ calls[2].op = "league_me" /\ calls[2].ok
           /\ calls[3].op = "market" /\ calls[3].ok
           /\ \A c \in Offers : c > 3

\* league_me failed after a successful login and the run ended there
C10_Witness ==
    /\ Len(calls) = 2
    /\ calls[1].ok
    /\ calls[2].op = "league_me"
    /\ ~calls[2].ok
    /\ pc = "done"

====
